---- MODULE Spec2Model ----
(***************************************************************************)
(* Model of rabbit.py: the P2000 ingestion agent.  main() connects to the  *)
(* broker (connect_rabbit), starts the decoder pair rtl_fm | multimon-ng   *)
(* (start_decoder), reads decoded lines, publishes one record per accepted *)
(* line, and on any end of the read loop tears everything down, sleeps a   *)
(* backoff and starts over, until the signal handler clears `running`.     *)
(*                                                                         *)
(* pc is the position of the single thread of control; the signal handler, *)
(* the two child processes and the broker are the environment.             *)
(* Sleep arguments are recorded in tenths of a second (sleepArg), so that  *)
(* time.sleep(0.1) is 1, time.sleep(5) is 50 and time.sleep(sleep_time) is *)
(* 10 * sleep_time.                                                        *)
(***************************************************************************)
EXTENDS Integers, Sequences, FiniteSets, TLC

VARIABLES
    pc,            \* position of main() / connect_rabbit() / start_decoder()
    running,       \* the module-level shutdown flag (line 27)
    fail_counter,  \* main's local fail_counter (line 163)
    conn,          \* the latest connection handle: "None", "open", "closed"
    leaked,        \* connections still open that no variable refers to any more
    rtl_proc,      \* rtl_fm process: "none", "alive", "dead"
    multi_proc,    \* multimon-ng process: "none", "alive", "dead"
    line,          \* the line last returned by readline()
    msg_json,      \* id of the record built from the line (0: none in flight)
    nextId,        \* number of records created so far (fresh uuid per record)
    attempts,      \* publish attempts in order: <<record id, succeeded>>
    sleep_time,    \* main's local sleep_time (line 218), seconds
    sleepArg,      \* argument of the last time.sleep call, tenths of a second
    cause,         \* what ended the current cycle's read loop
    retried,       \* connect_rabbit has slept its retry delay in this call
    accepted,      \* number of non-blank, non-banner lines read so far
    sdAt,          \* pc at which the shutdown signal was handled ("none" before)
    sdFlight,      \* outcome of the connect attempt in flight at that moment
    rxCount,       \* number of "RX ..." diagnostic lines logged (line 190)
    cycles,        \* number of cycles in which connect_rabbit returned a handle
    connCycle,     \* the cycle for which the latest connection was opened
    msg,           \* the record returned by parse_flex_line
    src            \* the parts the parsed line was built from

vars == <<pc, running, fail_counter, conn, leaked, rtl_proc, multi_proc, line,
          msg_json, nextId, attempts, sleep_time, sleepArg, cause, retried,
          accepted, sdAt, sdFlight, rxCount, cycles, connCycle, msg, src>>

(***************************************************************************)
(* Bounds of the model.                                                    *)
(***************************************************************************)
MaxFail == 11       \* cycles explored (the cap of the backoff is reached at 10)
MaxRecords == 2     \* records created in one run
MaxLeaked == 1      \* unreferenced connections still open

(***************************************************************************)
(* Program constants.                                                      *)
(***************************************************************************)
RetryDelay == 5     \* time.sleep(5) in connect_rabbit
BackoffCap == 30    \* min(30, ...)
BackoffUnit == 3    \* fail_counter * 3
PollTenths == 1     \* time.sleep(0.1), in tenths of a second

Min(a, b) == IF a < b THEN a ELSE b

(***************************************************************************)
(* Lines.  A line is a sequence of characters; "E" ":" abbreviates the     *)
(* banner prefix "Enabled demodulators:", "x" is any other visible         *)
(* character, " " and "\n" are whitespace.                                 *)
(***************************************************************************)
Whitespace == {" ", "\n"}

Banner == <<"E", ":">>

DecoderLines ==
    { <<"\n">>, <<" ", "\n">>,
      <<"E", ":", "x", "\n">>, <<" ", "E", ":", "\n">>,
      <<"x", "\n">>, <<"x", "E", ":", "\n">>, <<"E", "\n">>, <<" ", "x", " ">> }

RECURSIVE LStrip(_)
LStrip(s) ==
    IF s # <<>> /\ Head(s) \in Whitespace THEN LStrip(Tail(s)) ELSE s

RECURSIVE RStrip(_)
RStrip(s) ==
    IF s # <<>> /\ s[Len(s)] \in Whitespace
    THEN RStrip(SubSeq(s, 1, Len(s) - 1))
    ELSE s

\* str.strip()
Strip(s) == RStrip(LStrip(s))

\* str.startswith(p)
StartsWith(s, p) == Len(s) >= Len(p) /\ SubSeq(s, 1, Len(p)) = p

\* lines 183-185: the stripped line is dropped when blank or the banner
\* the banner test on the line as read
DiscardedNoStrip(l) == l = <<>> \/ StartsWith(l, Banner)

Discarded(l) == Strip(l) = <<>> \/ StartsWith(Strip(l), Banner)

\* the backoff without its cap
BackoffNoCap(c) == c * BackoffUnit

\* line 218
Backoff(c) == Min(BackoffCap, c * BackoffUnit)

(***************************************************************************)
(* parse_flex_line.  Strings are sequences of one-character strings; None  *)
(* is a value no string equals.  The record carries every field of the     *)
(* dict but the two wall-clock stamps; id is the fresh uuid.               *)
(***************************************************************************)
None == <<"None">>

Digits == {"0", "1", "2", "3", "4", "5", "6", "7", "8", "9"}

Letters ==
    {"A", "B", "G", "I", "O", "P", "R", "a", "b", "g", "i", "o", "p", "r",
     "E", "x", "y", "t", "F"}

\* a search without re.I
UpperNone(c) == c

\* str.upper() on the letters the patterns name (re.I)
Upper(c) ==
    CASE c = "a" -> "A" [] c = "b" -> "B" [] c = "g" -> "G" [] c = "i" -> "I"
      [] c = "o" -> "O" [] c = "p" -> "P" [] c = "r" -> "R" [] OTHER -> c

\* \w
IsWord(s, i) == i >= 1 /\ i <= Len(s) /\ s[i] \in Letters \cup Digits

\* \b between s[i-1] and s[i]
Boundary(s, i) == IsWord(s, i - 1) # IsWord(s, i)

\* one character of s at i, upper-cased, "" past the end
At(s, i) == IF i >= 1 /\ i <= Len(s) THEN Upper(s[i]) ELSE ""

RECURSIVE SplitFrom(_, _, _)
SplitFrom(s, d, cur) ==
    IF s = <<>> THEN <<cur>>
    ELSE IF Head(s) = d THEN <<cur>> \o SplitFrom(Tail(s), d, <<>>)
    ELSE SplitFrom(Tail(s), d, Append(cur, Head(s)))

\* str.split(d)
SplitOn(s, d) == SplitFrom(s, d, <<>>)

RECURSIVE JoinWith(_, _)
\* d.join(parts)
JoinWith(parts, d) ==
    IF parts = <<>> THEN <<>>
    ELSE IF Len(parts) = 1 THEN parts[1]
    ELSE parts[1] \o <<d>> \o JoinWith(Tail(parts), d)

RECURSIVE WsFrom(_, _)
WsFrom(s, cur) ==
    IF s = <<>> THEN (IF cur = <<>> THEN <<>> ELSE <<cur>>)
    ELSE IF Head(s) \in Whitespace
         THEN (IF cur = <<>> THEN <<>> ELSE <<cur>>) \o WsFrom(Tail(s), <<>>)
         ELSE WsFrom(Tail(s), Append(cur, Head(s)))

\* str.split(" ") in the place of str.split()
SplitWsSingle(s) == SplitOn(s, " ")

\* str.split()
SplitWs(s) == WsFrom(s, <<>>)

\* length of the match of PRIO\s?[1-5] at i, 0 when there is none
PrioWordLen(s, i) ==
    IF <<At(s, i), At(s, i + 1), At(s, i + 2), At(s, i + 3)>> # <<"P", "R", "I", "O">>
    THEN 0
    ELSE IF At(s, i + 4) \in Whitespace /\ At(s, i + 5) \in {"1", "2", "3", "4", "5"}
    THEN 6
    ELSE IF At(s, i + 4) \in {"1", "2", "3", "4", "5"} THEN 5 ELSE 0

\* lengths of the alternatives of (A[1-2]|B1|P[1-3]|PRIO\s?[1-5]) at i, in order
PrioAlternatives(s, i) ==
    << IF At(s, i) = "A" /\ At(s, i + 1) \in {"1", "2"} THEN 2 ELSE 0,
       IF At(s, i) = "B" /\ At(s, i + 1) = "1" THEN 2 ELSE 0,
       IF At(s, i) = "P" /\ At(s, i + 1) \in {"1", "2", "3"} THEN 2 ELSE 0,
       PrioWordLen(s, i) >>

\* length of the match of \b(...)\b at i: the first alternative that matches
\* with a word boundary on both sides; 0 when there is none
PrioMatchLen(s, i) ==
    LET alts == PrioAlternatives(s, i)
        good == {k \in 1..4 : alts[k] > 0 /\ Boundary(s, i) /\ Boundary(s, i + alts[k])}
    IN  IF good = {} THEN 0
        ELSE alts[CHOOSE k \in good : \A j \in good : k <= j]

\* line 135-136: re.search(...).group(0), or None
PrioSearch(s) ==
    LET hits == {i \in 1..Len(s) : PrioMatchLen(s, i) > 0}
    IN  IF hits = {} THEN None
        ELSE LET i == CHOOSE h \in hits : \A j \in hits : h <= j
             IN  SubSeq(s, i, i + PrioMatchLen(s, i) - 1)

\* length of the match of \bGRIP\s?([1-4])\b at i, 0 when there is none
GripMatchLen(s, i) ==
    LET n == IF <<At(s, i), At(s, i + 1), At(s, i + 2), At(s, i + 3)>>
                  # <<"G", "R", "I", "P">>
             THEN 0
             ELSE IF At(s, i + 4) \in Whitespace /\ At(s, i + 5) \in {"1", "2", "3", "4"}
             THEN 6
             ELSE IF At(s, i + 4) \in {"1", "2", "3", "4"} THEN 5 ELSE 0
    IN  IF n > 0 /\ Boundary(s, i) /\ Boundary(s, i + n) THEN n ELSE 0

\* lines 138-139: f"GRIP {grip_match.group(1)}", or None
GripSearch(s) ==
    LET hits == {i \in 1..Len(s) : GripMatchLen(s, i) > 0}
    IN  IF hits = {} THEN None
        ELSE LET i == CHOOSE h \in hits : \A j \in hits : h <= j
             IN  <<"G", "R", "I", "P", " ", s[i + GripMatchLen(s, i) - 1]>>

\* lines 120-156, with the least number of fields of a well-formed line
ParseWith(l, id, fields) ==
    LET parts == SplitOn(l, "|")
        short == Len(parts) < fields
        message_text ==
            IF short THEN l
            ELSE Strip(JoinWith(SubSeq(parts, 6, Len(parts)), "|"))
    IN  [ id |-> id,
          protocol |-> "FLEX",
          raw_flex_timestamp |-> IF short THEN None ELSE parts[2],
          raw |-> l,
          data |-> [ message |-> message_text,
                     prio |-> IF short THEN None ELSE PrioSearch(message_text),
                     grip |-> IF short THEN None ELSE GripSearch(message_text),
                     capcodes |-> IF short THEN <<>>
                                  ELSE IF Strip(parts[5]) # <<>>
                                       THEN SplitWs(parts[5])
                                       ELSE <<>> ] ]

\* a parser that takes six fields for a well-formed line
parse_flex_line_6(l, id) == ParseWith(l, id, 6)

\* line 124: if len(parts) < 7
parse_flex_line(l, id) == ParseWith(l, id, 7)

\* no record parsed yet
NoRecord == [id |-> 0]

\* no line built yet
NoSource == [kind |-> "none"]

CrPcs == {"cr_loop", "cr_connect", "cr_declare", "cr_sleep"}

Exited == {"stopped", "crashed"}

Init ==
    /\ pc = "makedirs"
    /\ running = TRUE
    /\ fail_counter = 0
    /\ conn = "None"
    /\ leaked = 0
    /\ rtl_proc = "none"
    /\ multi_proc = "none"
    /\ line = <<>>
    /\ msg_json = 0
    /\ nextId = 0
    /\ attempts = <<>>
    /\ sleep_time = 0
    /\ sleepArg = 0
    /\ cause = "none"
    /\ retried = FALSE
    /\ accepted = 0
    /\ sdAt = "none"
    /\ sdFlight = "na"
    /\ rxCount = 0
    /\ cycles = 0
    /\ connCycle = 0
    /\ msg = NoRecord
    /\ src = NoSource

(***************************************************************************)
(* Environment.                                                            *)
(***************************************************************************)
\* handle_signal: SIGINT or SIGTERM clears the flag
Shutdown ==
    /\ pc \notin Exited
    /\ running
    /\ running' = FALSE
    /\ sdAt' = pc
    /\ sdFlight' = IF pc \in {"cr_connect", "cr_declare"} THEN "pending" ELSE "na"
    /\ UNCHANGED <<pc, fail_counter, conn, leaked, rtl_proc, multi_proc, line,
                   msg_json, nextId, attempts, sleep_time, sleepArg, cause,
                   retried, accepted,
                   rxCount, cycles, connCycle, msg, src>>

\* rtl_fm exits on its own (poll() is no longer None)
RtlExit ==
    /\ rtl_proc = "alive"
    /\ rtl_proc' = "dead"
    /\ UNCHANGED <<pc, running, fail_counter, conn, leaked, multi_proc, line,
                   msg_json, nextId, attempts, sleep_time, sleepArg, cause,
                   retried, accepted, sdAt, sdFlight,
                   rxCount, cycles, connCycle, msg, src>>

\* multimon-ng exits on its own: its stdout is at end-of-stream from then on
MultiExit ==
    /\ multi_proc = "alive"
    /\ multi_proc' = "dead"
    /\ UNCHANGED <<pc, running, fail_counter, conn, leaked, rtl_proc, line,
                   msg_json, nextId, attempts, sleep_time, sleepArg, cause,
                   retried, accepted, sdAt, sdFlight,
                   rxCount, cycles, connCycle, msg, src>>

\* the broker or the network drops the connection (is_open becomes False)
BrokerDrop ==
    /\ conn = "open"
    /\ pc \notin Exited
    /\ conn' = "closed"
    /\ UNCHANGED <<pc, running, fail_counter, leaked, rtl_proc, multi_proc, line,
                   msg_json, nextId, attempts, sleep_time, sleepArg, cause,
                   retried, accepted, sdAt, sdFlight,
                   rxCount, cycles, connCycle, msg, src>>

\* an unreferenced connection is collected, or the broker times it out
LeakReclaim ==
    /\ leaked > 0
    /\ leaked' = leaked - 1
    /\ UNCHANGED <<pc, running, fail_counter, conn, rtl_proc, multi_proc, line,
                   msg_json, nextId, attempts, sleep_time, sleepArg, cause,
                   retried, accepted, sdAt, sdFlight,
                   rxCount, cycles, connCycle, msg, src>>

(***************************************************************************)
(* main(), line 161: os.makedirs(LOG_DIR, exist_ok=True), outside any try. *)
(***************************************************************************)
MakeDirs ==
    /\ pc = "makedirs"
    /\ \E ok \in BOOLEAN :
         IF ok
         THEN pc' = "main_loop" /\ UNCHANGED cause
         ELSE pc' = "crashed" /\ cause' = "makedirs"
    /\ UNCHANGED <<running, fail_counter, conn, leaked, rtl_proc, multi_proc,
                   line, msg_json, nextId, attempts, sleep_time, sleepArg,
                   retried, accepted, sdAt, sdFlight,
                   rxCount, cycles, connCycle, msg, src>>

(***************************************************************************)
(* main(), line 165: while running                                         *)
(***************************************************************************)
MainLoop ==
    /\ pc = "main_loop"
    /\ IF running
       THEN /\ fail_counter < MaxFail
            /\ pc' = "cr_loop"
            /\ retried' = FALSE
       ELSE /\ pc' = "stopped"
            /\ UNCHANGED retried
    /\ UNCHANGED <<running, fail_counter, conn, leaked, rtl_proc, multi_proc,
                   line, msg_json, nextId, attempts, sleep_time, sleepArg,
                   cause, accepted, sdAt, sdFlight,
                   rxCount, cycles, connCycle, msg, src>>

\* connect_rabbit with a retry loop that does not look at the flag
CrLoopNoCheck ==
    /\ pc = "cr_loop"
    /\ pc' = "cr_connect"
    /\ UNCHANGED <<running, fail_counter, conn, leaked, rtl_proc, multi_proc,
                   line, msg_json, nextId, attempts, sleep_time, sleepArg,
                   cause, retried, accepted, sdAt, sdFlight,
                   rxCount, cycles, connCycle, msg, src>>

(***************************************************************************)
(* connect_rabbit(), line 95: while running; line 117: return None, None.  *)
(* A connection left open by a failed attempt of this call loses its last  *)
(* reference when the function returns.                                    *)
(***************************************************************************)
CrLoop ==
    /\ pc = "cr_loop"
    /\ IF running
       THEN /\ pc' = "cr_connect"
            /\ UNCHANGED <<conn, leaked>>
       ELSE /\ pc' = "main_check"
            /\ conn' = "None"
            /\ leaked' = IF conn = "open" THEN leaked + 1 ELSE leaked
    /\ UNCHANGED <<running, fail_counter, rtl_proc, multi_proc, line, msg_json,
                   nextId, attempts, sleep_time, sleepArg, cause, retried,
                   accepted, sdAt, sdFlight,
                   rxCount, cycles, connCycle, msg, src>>

\* a connect failure that counts as a pipeline failure
CrConnectCounts ==
    /\ pc = "cr_connect"
    /\ \E ok \in BOOLEAN :
         IF ok
         THEN /\ pc' = "cr_declare"
              /\ conn' = "open"
              /\ leaked' = IF conn = "open" THEN leaked + 1 ELSE leaked
              /\ connCycle' = cycles + 1
              /\ UNCHANGED <<sdFlight, fail_counter>>
         ELSE /\ pc' = "cr_sleep"
              /\ fail_counter' = Min(fail_counter + 1, MaxFail)
              /\ sdFlight' = IF sdFlight = "pending" THEN "failed" ELSE sdFlight
              /\ UNCHANGED <<conn, leaked, connCycle>>
    /\ UNCHANGED <<running, rtl_proc, multi_proc, line, msg_json, nextId,
                   attempts, sleep_time, sleepArg, cause, retried, accepted,
                   sdAt,
                   rxCount, cycles, msg, src>>

\* lines 98-104: pika.BlockingConnection(...) returns a connection or raises
CrConnect ==
    /\ pc = "cr_connect"
    /\ \E ok \in BOOLEAN :
         IF ok
         THEN /\ pc' = "cr_declare"
              /\ conn' = "open"
              /\ leaked' = IF conn = "open" THEN leaked + 1 ELSE leaked
              /\ connCycle' = cycles + 1
              /\ UNCHANGED sdFlight
         ELSE /\ pc' = "cr_sleep"
              /\ sdFlight' = IF sdFlight = "pending" THEN "failed" ELSE sdFlight
              /\ UNCHANGED <<conn, leaked, connCycle>>
    /\ UNCHANGED <<running, fail_counter, rtl_proc, multi_proc, line, msg_json,
                   nextId, attempts, sleep_time, sleepArg, cause, retried,
                   accepted, sdAt,
                   rxCount, cycles, msg, src>>

\* lines 105-114: conn.channel() and queue_declare(); on success the pair is
\* returned, on an exception nothing closes the connection just opened
CrDeclare ==
    /\ pc = "cr_declare"
    /\ \E ok \in BOOLEAN, stillOpen \in BOOLEAN :
         IF ok
         THEN /\ conn = "open"
              /\ stillOpen
              /\ pc' = "main_check"
              /\ sdFlight' = IF sdFlight = "pending" THEN "ok" ELSE sdFlight
              /\ UNCHANGED conn
         ELSE /\ pc' = "cr_sleep"
              /\ sdFlight' = IF sdFlight = "pending" THEN "failed" ELSE sdFlight
              /\ IF stillOpen
                 THEN conn = "open" /\ leaked < MaxLeaked /\ UNCHANGED conn
                 ELSE conn' = "closed"
    /\ UNCHANGED <<running, fail_counter, leaked, rtl_proc, multi_proc, line,
                   msg_json, nextId, attempts, sleep_time, sleepArg, cause,
                   retried, accepted, sdAt,
                   rxCount, cycles, connCycle, msg, src>>

\* line 115: time.sleep(5)
CrSleep ==
    /\ pc = "cr_sleep"
    /\ sleepArg' = 10 * RetryDelay
    /\ retried' = TRUE
    /\ pc' = "cr_loop"
    /\ UNCHANGED <<running, fail_counter, conn, leaked, rtl_proc, multi_proc,
                   line, msg_json, nextId, attempts, sleep_time, cause,
                   accepted, sdAt, sdFlight,
                   rxCount, cycles, connCycle, msg, src>>

\* lines 166-168: if not conn: break (and line 222)
MainCheck ==
    /\ pc = "main_check"
    /\ pc' = IF conn = "None" THEN "stopped" ELSE "start_rtl"
    /\ cycles' = IF conn = "None" THEN cycles ELSE cycles + 1
    /\ UNCHANGED <<running, fail_counter, conn, leaked, rtl_proc, multi_proc,
                   line, msg_json, nextId, attempts, sleep_time, sleepArg,
                   cause, retried, accepted, sdAt, sdFlight,
                   rxCount, connCycle, msg, src>>

(***************************************************************************)
(* start_decoder(), called at line 170 outside the try: an exception of    *)
(* either Popen leaves main().                                             *)
(***************************************************************************)
StartRtl ==
    /\ pc = "start_rtl"
    /\ \E ok \in BOOLEAN :
         IF ok
         THEN rtl_proc' = "alive" /\ pc' = "start_multi"
         ELSE pc' = "crashed" /\ UNCHANGED rtl_proc
    /\ UNCHANGED <<running, fail_counter, conn, leaked, multi_proc, line,
                   msg_json, nextId, attempts, sleep_time, sleepArg, cause,
                   retried, accepted, sdAt, sdFlight,
                   rxCount, cycles, connCycle, msg, src>>

StartMulti ==
    /\ pc = "start_multi"
    /\ \E ok \in BOOLEAN :
         IF ok
         THEN multi_proc' = "alive" /\ pc' = "read_loop" /\ cause' = "none"
         ELSE pc' = "crashed" /\ UNCHANGED <<multi_proc, cause>>
    /\ UNCHANGED <<running, fail_counter, conn, leaked, rtl_proc, line,
                   msg_json, nextId, attempts, sleep_time, sleepArg, retried,
                   accepted, sdAt, sdFlight,
                   rxCount, cycles, connCycle, msg, src>>

(***************************************************************************)
(* The read loop, lines 175-201.                                           *)
(***************************************************************************)
\* line 175: while running
ReadLoop ==
    /\ pc = "read_loop"
    /\ IF running
       THEN pc' = "readline" /\ UNCHANGED cause
       ELSE pc' = "finally" /\ cause' = "stop"
    /\ UNCHANGED <<running, fail_counter, conn, leaked, rtl_proc, multi_proc,
                   line, msg_json, nextId, attempts, sleep_time, sleepArg,
                   retried, accepted, sdAt, sdFlight,
                   rxCount, cycles, connCycle, msg, src>>

\* a record that is published without having been logged
ReadLineNoLog ==
    /\ pc = "readline"
    /\ multi_proc # "none"
    /\ \E l \in DecoderLines :
         /\ line' = l
         /\ IF Discarded(l)
            THEN /\ pc' = "read_loop"
                 /\ UNCHANGED <<msg_json, nextId>>
            ELSE /\ nextId < MaxRecords
                 /\ nextId' = nextId + 1
                 /\ msg_json' = nextId + 1
                 /\ pc' = "publish"
         /\ accepted' = IF Strip(l) # <<>> /\ ~StartsWith(Strip(l), Banner)
                        THEN accepted + 1 ELSE accepted
    /\ UNCHANGED <<running, fail_counter, conn, leaked, rtl_proc, multi_proc,
                   attempts, sleep_time, sleepArg, cause, retried, sdAt,
                   sdFlight, rxCount, cycles, connCycle, msg, src>>

\* lines 176, 183-190: readline() returns a line the decoder wrote (a line
\* still in the pipe when multimon-ng has exited included); it is stripped,
\* dropped when blank or the banner, else parsed into a record, which is
\* serialized (msg_json names it by its id; its content is PendingRecord)
\* and logged as "RX ..."
ReadLine ==
    /\ pc = "readline"
    /\ multi_proc # "none"
    /\ \E l \in DecoderLines :
         /\ line' = l
         /\ IF Discarded(l)
            THEN /\ pc' = "read_loop"
                 /\ UNCHANGED <<msg_json, nextId, rxCount>>
            ELSE /\ nextId < MaxRecords
                 /\ nextId' = nextId + 1
                 /\ msg_json' = nextId + 1
                 /\ rxCount' = rxCount + 1
                 /\ pc' = "publish"
         /\ accepted' = IF Strip(l) # <<>> /\ ~StartsWith(Strip(l), Banner)
                        THEN accepted + 1 ELSE accepted
    /\ UNCHANGED <<running, fail_counter, conn, leaked, rtl_proc, multi_proc,
                   attempts, sleep_time, sleepArg, cause, retried, sdAt,
                   sdFlight, cycles, connCycle, msg, src>>

\* lines 187-188: the record waiting to be published
PendingRecord == parse_flex_line(Strip(line), msg_json)

\* an end-of-stream that ends the cycle
ReadEmptyRestarts ==
    /\ pc = "readline"
    /\ multi_proc = "dead"
    /\ line' = <<>>
    /\ cause' = "eof"
    /\ pc' = "finally"
    /\ UNCHANGED <<running, fail_counter, conn, leaked, rtl_proc, multi_proc,
                   msg_json, nextId, attempts, sleep_time, sleepArg, retried,
                   accepted, sdAt, sdFlight,
                   rxCount, cycles, connCycle, msg, src>>

\* lines 176-181: readline() returns '' (end-of-stream after multimon-ng has
\* exited); the loop sleeps 0.1 s and reads again
ReadEmpty ==
    /\ pc = "readline"
    /\ multi_proc = "dead"
    /\ line' = <<>>
    /\ sleepArg' = PollTenths
    /\ pc' = "read_loop"
    /\ UNCHANGED <<running, fail_counter, conn, leaked, rtl_proc, multi_proc,
                   msg_json, nextId, attempts, sleep_time, cause, retried,
                   accepted, sdAt, sdFlight,
                   rxCount, cycles, connCycle, msg, src>>

\* lines 176, 203-204: readline() raises; except Exception logs it
ReadError ==
    /\ pc = "readline"
    /\ pc' = "finally"
    /\ cause' = "read"
    /\ UNCHANGED <<running, fail_counter, conn, leaked, rtl_proc, multi_proc,
                   line, msg_json, nextId, attempts, sleep_time, sleepArg,
                   retried, accepted, sdAt, sdFlight,
                   rxCount, cycles, connCycle, msg, src>>

\* a publish that is tried again with the same record when it raises
PublishRetry ==
    /\ pc = "publish"
    /\ \E ok \in BOOLEAN :
         /\ attempts' = Append(attempts, <<msg_json, ok>>)
         /\ IF ok
            THEN /\ conn = "open"
                 /\ msg_json' = 0
                 /\ pc' = "read_loop"
            ELSE /\ Len(attempts) < MaxRecords
                 /\ UNCHANGED <<msg_json, pc>>
    /\ UNCHANGED <<running, fail_counter, conn, leaked, rtl_proc, multi_proc,
                   line, nextId, sleep_time, sleepArg, cause, retried, accepted,
                   sdAt, sdFlight,
                   rxCount, cycles, connCycle, msg, src>>

\* lines 192-201: basic_publish succeeds, or raises and the loop is left
Publish ==
    /\ pc = "publish"
    /\ \E ok \in BOOLEAN, lost \in BOOLEAN :
         /\ attempts' = Append(attempts, <<msg_json, ok>>)
         /\ msg_json' = 0
         /\ IF ok
            THEN /\ conn = "open"
                 /\ ~lost
                 /\ pc' = "read_loop"
                 /\ UNCHANGED <<conn, cause>>
            ELSE /\ pc' = "finally"
                 /\ cause' = "publish"
                 /\ conn' = IF lost THEN "closed" ELSE conn
    /\ UNCHANGED <<running, fail_counter, leaked, rtl_proc, multi_proc, line,
                   nextId, sleep_time, sleepArg, retried, accepted, sdAt,
                   sdFlight,
                   rxCount, cycles, connCycle, msg, src>>

(***************************************************************************)
(* The finally block, lines 205-220.                                       *)
(***************************************************************************)
\* a counter that a shutdown request does not advance
FinallyOnlyOnFailure ==
    /\ pc = "finally"
    /\ fail_counter' = IF cause = "stop" THEN fail_counter ELSE fail_counter + 1
    /\ pc' = "kill_rtl"
    /\ UNCHANGED <<running, conn, leaked, rtl_proc, multi_proc, line, msg_json,
                   nextId, attempts, sleep_time, sleepArg, cause, retried,
                   accepted, sdAt, sdFlight,
                   rxCount, cycles, connCycle, msg, src>>

\* line 206
Finally ==
    /\ pc = "finally"
    /\ fail_counter' = fail_counter + 1
    /\ pc' = "kill_rtl"
    /\ UNCHANGED <<running, conn, leaked, rtl_proc, multi_proc, line, msg_json,
                   nextId, attempts, sleep_time, sleepArg, cause, retried,
                   accepted, sdAt, sdFlight,
                   rxCount, cycles, connCycle, msg, src>>

\* lines 208-209: kill() may raise, which leaves main()
KillRtl ==
    /\ pc = "kill_rtl"
    /\ IF rtl_proc = "alive"
       THEN \E ok \in BOOLEAN :
              IF ok
              THEN rtl_proc' = "dead" /\ pc' = "kill_multi"
              ELSE pc' = "crashed" /\ UNCHANGED rtl_proc
       ELSE pc' = "kill_multi" /\ UNCHANGED rtl_proc
    /\ UNCHANGED <<running, fail_counter, conn, leaked, multi_proc, line,
                   msg_json, nextId, attempts, sleep_time, sleepArg, cause,
                   retried, accepted, sdAt, sdFlight,
                   rxCount, cycles, connCycle, msg, src>>

\* a teardown that forgets multimon-ng
KillMultiSkipped ==
    /\ pc = "kill_multi"
    /\ pc' = "close_conn"
    /\ UNCHANGED <<running, fail_counter, conn, leaked, rtl_proc, multi_proc,
                   line, msg_json, nextId, attempts, sleep_time, sleepArg,
                   cause, retried, accepted, sdAt, sdFlight,
                   rxCount, cycles, connCycle, msg, src>>

\* lines 211-212
KillMulti ==
    /\ pc = "kill_multi"
    /\ IF multi_proc = "alive"
       THEN \E ok \in BOOLEAN :
              IF ok
              THEN multi_proc' = "dead" /\ pc' = "close_conn"
              ELSE pc' = "crashed" /\ UNCHANGED multi_proc
       ELSE pc' = "close_conn" /\ UNCHANGED multi_proc
    /\ UNCHANGED <<running, fail_counter, conn, leaked, rtl_proc, line,
                   msg_json, nextId, attempts, sleep_time, sleepArg, cause,
                   retried, accepted, sdAt, sdFlight,
                   rxCount, cycles, connCycle, msg, src>>

\* lines 214-215: close() may raise, which leaves main()
CloseConn ==
    /\ pc = "close_conn"
    /\ IF conn = "open"
       THEN \E ok \in BOOLEAN, closed \in BOOLEAN :
              IF ok
              THEN closed /\ conn' = "closed" /\ pc' = "backoff"
              ELSE /\ pc' = "crashed"
                   /\ conn' = IF closed THEN "closed" ELSE conn
       ELSE pc' = "backoff" /\ UNCHANGED conn
    /\ UNCHANGED <<running, fail_counter, leaked, rtl_proc, multi_proc, line,
                   msg_json, nextId, attempts, sleep_time, sleepArg, cause,
                   retried, accepted, sdAt, sdFlight,
                   rxCount, cycles, connCycle, msg, src>>

\* lines 218-220
BackoffSleep ==
    /\ pc = "backoff"
    /\ sleep_time' = Backoff(fail_counter)
    /\ sleepArg' = 10 * Backoff(fail_counter)
    /\ pc' = "main_loop"
    /\ UNCHANGED <<running, fail_counter, conn, leaked, rtl_proc, multi_proc,
                   line, msg_json, nextId, attempts, cause, retried, accepted,
                   sdAt, sdFlight,
                   rxCount, cycles, connCycle, msg, src>>

Next ==
    \/ Shutdown
    \/ MakeDirs
    \/ RtlExit
    \/ MultiExit
    \/ BrokerDrop
    \/ LeakReclaim
    \/ MainLoop
    \/ CrLoop
    \/ CrConnect
    \/ CrDeclare
    \/ CrSleep
    \/ MainCheck
    \/ StartRtl
    \/ StartMulti
    \/ ReadLoop
    \/ ReadLine
    \/ ReadEmpty
    \/ ReadError
    \/ Publish
    \/ Finally
    \/ KillRtl
    \/ KillMulti
    \/ CloseConn
    \/ BackoffSleep

Spec == Init /\ [][Next]_vars

(***************************************************************************)
(* The same program under the scheduling the interpreter guarantees: the   *)
(* thread of main() keeps taking steps.  A blocking readline() returns     *)
(* once multimon-ng has exited (ReadEmpty), but nothing makes a live       *)
(* decoder write a line or the read raise, and nothing makes a signal, a   *)
(* process exit or a broker drop happen.  The runs are cut after           *)
(* MaxFailFair cycles.                                                     *)
(***************************************************************************)
MaxFailFair == 2

\* line 165 again, in a run that is cut after MaxFailFair cycles
MainLoopFair ==
    /\ running => fail_counter < MaxFailFair
    /\ MainLoop

MainProgress ==
    \/ MakeDirs
    \/ MainLoopFair
    \/ CrLoop
    \/ CrConnect
    \/ CrDeclare
    \/ CrSleep
    \/ MainCheck
    \/ StartRtl
    \/ StartMulti
    \/ ReadLoop
    \/ ReadEmpty
    \/ Publish
    \/ Finally
    \/ KillRtl
    \/ KillMulti
    \/ CloseConn
    \/ BackoffSleep

FairNext ==
    \/ Shutdown
    \/ MakeDirs
    \/ RtlExit
    \/ MultiExit
    \/ BrokerDrop
    \/ LeakReclaim
    \/ ReadLine
    \/ ReadError
    \/ MainProgress

FairSpec == Init /\ [][FairNext]_vars /\ WF_vars(MainProgress)

(***************************************************************************)
(* parse_flex_line on its own.  A run picks one input line, parses it, and *)
(* when a priority was extracted parses a second, well-formed line whose   *)
(* message holds that priority alone next to the delimiter that the        *)
(* message of a well-formed line always contains.  The inputs are short    *)
(* lines (fewer than 7 fields) and lines put together from a timestamp     *)
(* field, a capcode field and the text after the fifth delimiter, each     *)
(* listed with the value the record is to carry for it.                    *)
(***************************************************************************)
ShortLines ==
    { <<>>,
      <<"x">>,
      <<"A", "1">>,
      <<" ", "x", " ">>,
      <<"a", "|", "b">>,
      <<"x", "|", "t", "|", "x", "|", "x", "|", "7", "|", "A", "1">>,
      <<"G", "R", "I", "P", " ", "1">>,
      <<"P", "R", "I", "O", " ", "1", "\n">> }

TimestampFields == { <<"t">>, <<>>, <<"2", " ", "1">> }

CapcodeFields ==
    { [field |-> <<>>, toks |-> <<>>],
      [field |-> <<" ", " ">>, toks |-> <<>>],
      [field |-> <<"7">>, toks |-> <<<<"7">>>>],
      [field |-> <<" ", "7", " ", " ", "8", "9", " ">>, toks |-> <<<<"7">>, <<"8", "9">>>>],
      [field |-> <<"8", "9", " ", "7">>, toks |-> <<<<"8", "9">>, <<"7">>>>] }

MessageFields ==
    { [raw |-> <<"A", "1", " ", "B", "1", "|", "x">>,
        text |-> <<"A", "1", " ", "B", "1", "|", "x">>,
        prio |-> <<"A", "1">>],
      [raw |-> <<" ", "x", "|", "y", " ">>,
        text |-> <<"x", "|", "y">>,
        prio |-> None],
      [raw |-> <<"|">>,
        text |-> <<"|">>,
        prio |-> None],
      [raw |-> <<"x", "a", "1", "|">>,
        text |-> <<"x", "a", "1", "|">>,
        prio |-> None],
      [raw |-> <<"b", "1", "|", "P", "2">>,
        text |-> <<"b", "1", "|", "P", "2">>,
        prio |-> <<"b", "1">>],
      [raw |-> <<"x", "|", "p", "r", "i", "o", " ", "3">>,
        text |-> <<"x", "|", "p", "r", "i", "o", " ", "3">>,
        prio |-> <<"p", "r", "i", "o", " ", "3">>],
      [raw |-> <<"P", "R", "I", "O", "5", "|">>,
        text |-> <<"P", "R", "I", "O", "5", "|">>,
        prio |-> <<"P", "R", "I", "O", "5">>],
      [raw |-> <<"P", "4", "|", "a", "2">>,
        text |-> <<"P", "4", "|", "a", "2">>,
        prio |-> <<"a", "2">>],
      [raw |-> <<"A", "1", "2", "|", "p", "3", "|", "x">>,
        text |-> <<"A", "1", "2", "|", "p", "3", "|", "x">>,
        prio |-> <<"p", "3">>],
      [raw |-> <<"P", "R", "I", "O", " ", "6", "|", "G", "R", "I", "P", "2">>,
        text |-> <<"P", "R", "I", "O", " ", "6", "|", "G", "R", "I", "P", "2">>,
        prio |-> None],
      [raw |-> <<"P", "r", "i", "o", " ", " ", "1", "|", "B", "1">>,
        text |-> <<"P", "r", "i", "o", " ", " ", "1", "|", "B", "1">>,
        prio |-> <<"B", "1">>],
      [raw |-> <<" ", "a", "2", " ", "|">>,
        text |-> <<"a", "2", " ", "|">>,
        prio |-> <<"a", "2">>] }

\* a line of at least 7 fields: F|<timestamp>|x|x|<capcodes>|<message ...>
LongLine(ts, cap, raw) ==
    <<"F", "|">> \o ts \o <<"|", "x", "|", "x", "|">> \o cap \o <<"|">> \o raw

\* every variable of main() as main() finds it
MainIdle ==
    /\ running = TRUE
    /\ fail_counter = 0
    /\ conn = "None"
    /\ leaked = 0
    /\ rtl_proc = "none"
    /\ multi_proc = "none"
    /\ msg_json = 0
    /\ nextId = 0
    /\ attempts = <<>>
    /\ sleep_time = 0
    /\ sleepArg = 0
    /\ cause = "none"
    /\ retried = FALSE
    /\ accepted = 0
    /\ sdAt = "none"
    /\ sdFlight = "na"
    /\ rxCount = 0
    /\ cycles = 0
    /\ connCycle = 0

InitParse ==
    /\ MainIdle
    /\ pc = "parse_call"
    /\ msg = NoRecord
    /\ \/ \E l \in ShortLines :
            /\ line = l
            /\ src = [kind |-> "short", line |-> l]
       \/ \E ts \in TimestampFields, cap \in CapcodeFields, m \in MessageFields :
            /\ line = LongLine(ts, cap.field, m.raw)
            /\ src = [kind |-> "long", ts |-> ts, toks |-> cap.toks,
                      text |-> m.text, prio |-> m.prio]

\* msg = parse_flex_line(line), line 187
DoParse ==
    /\ pc = "parse_call"
    /\ msg' = parse_flex_line(line, nextId + 1)
    /\ nextId' = nextId + 1
    /\ pc' = "parse_ret"
    /\ UNCHANGED <<running, fail_counter, conn, leaked, rtl_proc, multi_proc,
                   line, msg_json, attempts, sleep_time, sleepArg, cause,
                   retried, accepted, sdAt, sdFlight, rxCount, cycles,
                   connCycle, src>>

\* the extracted priority is put into a well-formed line of its own, before
\* or after the delimiter of the message, to be parsed again
Reparse ==
    /\ pc = "parse_ret"
    /\ src.kind = "long"
    /\ msg.data.prio # None
    /\ \E front \in BOOLEAN :
         LET body == IF front THEN msg.data.prio \o <<"|">>
                              ELSE <<"|">> \o msg.data.prio
         IN  /\ line' = LongLine(<<"t">>, <<>>, body)
             /\ src' = [kind |-> "again", prio |-> msg.data.prio, text |-> body]
    /\ pc' = "parse_call"
    /\ UNCHANGED <<running, fail_counter, conn, leaked, rtl_proc, multi_proc,
                   msg_json, nextId, attempts, sleep_time, sleepArg, cause,
                   retried, accepted, sdAt, sdFlight, rxCount, cycles,
                   connCycle, msg>>

NextParse ==
    \/ DoParse
    \/ Reparse

ParseSpec == InitParse /\ [][NextParse]_vars

(***************************************************************************)
(* Helpers of the properties.                                              *)
(***************************************************************************)
OpenConnections == leaked + (IF conn = "open" THEN 1 ELSE 0)

TornDown == rtl_proc # "alive" /\ multi_proc # "alive" /\ conn # "open"

ExpectedDelay(c) == IF 3 * c < 30 THEN 3 * c ELSE 30

\* the shutdown flag was set during a failing connect attempt or during the
\* retry sleep of connect_rabbit
ShutdownInRetry ==
    \/ sdAt = "cr_sleep"
    \/ sdAt \in {"cr_connect", "cr_declare"} /\ sdFlight = "failed"

C2_OnePairOneConnection ==
    /\ OpenConnections <= 1
    /\ pc = "cr_connect" =>
         rtl_proc # "alive" /\ multi_proc # "alive" /\ OpenConnections = 0
    /\ pc = "start_rtl" => rtl_proc # "alive" /\ multi_proc # "alive"

(***************************************************************************)
(* C3. Once the shutdown flag is set the main loop eventually exits, and   *)
(* in the stopped state both processes are terminated and the broker       *)
(* connection is closed.                                                   *)
(***************************************************************************)
C3_ShutdownStops ==
    /\ (~running) ~> (pc = "stopped")
    /\ [](pc = "stopped" => TornDown /\ OpenConnections = 0)

(***************************************************************************)
(* C4. When the flag is set during a failing connect attempt or during the *)
(* retry sleep, no further connect attempt starts, connect_rabbit returns  *)
(* (None, None) after at most the current sleep, and main leaves its loop  *)
(* without starting the decoder or incrementing the failure counter.       *)
(***************************************************************************)
C4_Step ==
    /\ ShutdownInRetry' =>
          /\ ~running'
          /\ pc' \in {"cr_sleep", "cr_loop", "main_check", "stopped"}
          /\ rtl_proc' # "alive" /\ multi_proc' # "alive"
          /\ pc' \in {"main_check", "stopped"} => conn' = "None"
    /\ ShutdownInRetry =>
          /\ fail_counter' = fail_counter
          /\ pc = "cr_sleep" /\ pc' # pc => pc' = "cr_loop"
          /\ pc = "cr_loop" /\ pc' # pc => pc' = "main_check" /\ conn' = "None"
          /\ pc = "main_check" /\ pc' # pc => pc' = "stopped"

C4_ShutdownInRetry == [][C4_Step]_vars

C4_Witness ==
    /\ sdAt = "cr_connect"
    /\ sdFlight = "failed"
    /\ pc = "stopped"
    /\ retried
    /\ fail_counter = 1

(***************************************************************************)
(* C5. When the decoder has exited (its output is at end-of-stream) while  *)
(* the coordinator is reading and no shutdown is requested, the            *)
(* coordinator eventually enters the teardown of a restart.                *)
(***************************************************************************)
C5_CrashRestarts ==
    (multi_proc = "dead" /\ pc \in {"read_loop", "readline"} /\ running)
        ~> (pc = "finally" \/ ~running)

(***************************************************************************)
(* C6. While no shutdown signal has been received main() never terminates, *)
(* whatever fails once the loop has been entered (a log directory that     *)
(* cannot be created at startup is the subject of C15).                    *)
(***************************************************************************)
C6_NeverExits == running /\ cause # "makedirs" => pc \notin Exited

(***************************************************************************)
(* C7. The backoff delay is min(30, 3 * fail_counter): non-decreasing in   *)
(* the counter and never above 30.                                         *)
(***************************************************************************)
C7_BackoffDelay ==
    /\ \A c \in 0..fail_counter : Backoff(c) <= Backoff(fail_counter)
    /\ Backoff(fail_counter) <= 30
    /\ Backoff(fail_counter) = ExpectedDelay(fail_counter)
    /\ sleep_time <= 30
    /\ pc = "main_loop" /\ fail_counter > 0 =>
         /\ sleep_time = ExpectedDelay(fail_counter)
         /\ sleepArg = 10 * sleep_time

C7_Witness ==
    /\ pc = "main_loop"
    /\ fail_counter = 11
    /\ sleep_time = 30

(***************************************************************************)
(* C8. Every non-blank, non-banner line read yields exactly one record and *)
(* exactly one publish attempt; no record is published twice, and a record *)
(* whose publish failed is never published again.                          *)
(***************************************************************************)
C8_OnePublishPerRecord ==
    /\ nextId = accepted
    /\ Len(attempts) + (IF pc = "publish" THEN 1 ELSE 0) = nextId
    /\ (pc = "publish") <=> (msg_json # 0)
    /\ pc = "publish" => msg_json = nextId
    /\ \A i \in 1..Len(attempts) : attempts[i][1] \in 1..nextId
    /\ \A i, j \in 1..Len(attempts) : i # j => attempts[i][1] # attempts[j][1]

C8_Witness ==
    /\ Len(attempts) = 2
    /\ ~attempts[1][2]
    /\ attempts[2][2]
    /\ fail_counter >= 1
    /\ pc = "read_loop"

(***************************************************************************)
(* C9. A shutdown request that arrives between the start of                *)
(* connect_rabbit() and the entry to the read loop aborts the cycle: the   *)
(* decoder pair is not started after the flag has been set.                *)
(***************************************************************************)
C9_NoStartAfterShutdown ==
    sdAt \in CrPcs \cup {"main_check"} =>
        /\ rtl_proc # "alive" /\ multi_proc # "alive"
        /\ pc \notin {"start_multi", "read_loop", "readline", "publish"}

(***************************************************************************)
(* C10. While shutdown has not been requested connect_rabbit() retries     *)
(* after every failed attempt with the same 5 s delay, returns a handle    *)
(* only after an attempt has succeeded, never returns (None, None), never  *)
(* raises, and never changes the failure counter or the backoff delay.     *)
(***************************************************************************)
C10_Step ==
    pc \in CrPcs =>
        /\ fail_counter' = fail_counter
        /\ sleep_time' = sleep_time
        /\ pc' \notin Exited
        /\ pc = "cr_sleep" /\ pc' # pc => pc' = "cr_loop" /\ sleepArg' = 50
        /\ pc = "cr_loop" /\ running /\ pc' # pc => pc' = "cr_connect"
        /\ pc \in {"cr_connect", "cr_declare"} /\ pc' \notin {pc, "cr_sleep"} =>
              /\ conn' = "open"
              /\ pc' = IF pc = "cr_connect" THEN "cr_declare" ELSE "main_check"
        /\ pc' = "main_check" /\ conn' = "None" => ~running
        /\ pc' = "main_check" /\ conn' # "None" =>
              pc = "cr_declare" /\ conn = "open" /\ conn' = "open"

C10_ConnectRetries == [][C10_Step]_vars

C10_Witness ==
    /\ pc = "main_check"
    /\ conn = "open"
    /\ retried
    /\ running
    /\ sleepArg = 50
    /\ fail_counter = 1

(***************************************************************************)
(* C11. The failure counter is incremented and the backoff slept only when *)
(* the cycle ended by a publish failure or a fatal read error on the       *)
(* decoder stream; a shutdown request ending the cycle does neither.       *)
(***************************************************************************)
C11_FailedOnlyOnFailure ==
    pc \in {"kill_rtl", "kill_multi", "close_conn", "backoff"} =>
        cause \in {"publish", "read"}

(***************************************************************************)
(* C12. For every line of fewer than 7 fields the record's message and raw *)
(* field are the line verbatim, its source timestamp, priority and grip    *)
(* are null and its capcode list is empty; the parser never fails and the  *)
(* message is never absent.                                                *)
(***************************************************************************)
C12_ShortLineVerbatim ==
    /\ pc = "parse_call" =>
         /\ parse_flex_line(line, nextId + 1).raw = line
         /\ parse_flex_line(line, nextId + 1).data.message # None
    /\ pc = "parse_ret" =>
         /\ "message" \in DOMAIN msg.data
         /\ msg.data.message # None
         /\ msg.raw = line
    /\ pc = "parse_ret" /\ src.kind = "short" =>
         /\ msg.data.message = src.line
         /\ msg.raw = src.line
         /\ msg.raw_flex_timestamp = None
         /\ msg.data.prio = None
         /\ msg.data.grip = None
         /\ msg.data.capcodes = <<>>

C12_Witness ==
    /\ pc = "parse_ret"
    /\ src.kind = "short"
    /\ src.line = <<"x", "|", "t", "|", "x", "|", "x", "|", "7", "|", "A", "1">>
    /\ msg.data.message = src.line
    /\ msg.data.prio = None

(***************************************************************************)
(* C13. For every line of at least 7 fields the capcode list is the        *)
(* whitespace-split tokens of field 4 in their order (empty when the field *)
(* is blank), the source timestamp is field 1, and the message is fields   *)
(* 5..end rejoined with the delimiter and trimmed.                         *)
(***************************************************************************)
C13_WellFormedFields ==
    pc = "parse_ret" /\ src.kind = "long" =>
        /\ msg.data.capcodes = src.toks
        /\ msg.raw_flex_timestamp = src.ts
        /\ msg.data.message = src.text

C13_Witness ==
    /\ pc = "parse_ret"
    /\ src.kind = "long"
    /\ src.toks = << <<"7">>, <<"8", "9">> >>
    /\ msg.data.capcodes = src.toks
    /\ msg.raw_flex_timestamp = <<"2", " ", "1">>
    /\ msg.data.message = <<"x", "|", "y">>

(***************************************************************************)
(* C14. Priority extraction is case-insensitive, takes the first match     *)
(* verbatim, and is idempotent: a well-formed line whose message holds an  *)
(* extracted priority alone yields that priority again.                    *)
(***************************************************************************)
C14_PriorityIdempotent ==
    /\ pc = "parse_ret" /\ src.kind = "long" => msg.data.prio = src.prio
    /\ pc = "parse_ret" /\ src.kind = "again" =>
         /\ msg.data.message = src.text
         /\ msg.data.prio = src.prio

C14_Witness ==
    /\ pc = "parse_ret"
    /\ src.kind = "again"
    /\ src.prio = <<"p", "r", "i", "o", " ", "3">>
    /\ msg.data.prio = <<"p", "r", "i", "o", " ", "3">>

(***************************************************************************)
(* C15. A failure of the diagnostic sink (the log directory or the log     *)
(* file cannot be created, opened or written) is never surfaced: the       *)
(* process keeps running as it does when the sink works.                   *)
(***************************************************************************)
C15_SinkFailureAbsorbed == cause = "makedirs" => pc # "crashed"

(***************************************************************************)
(* C16. An empty read from the decoder stream leaves main() in the read    *)
(* loop after a pause of 0.1 s and changes nothing else: the failure       *)
(* counter, the two processes and the connection are unchanged, nothing is *)
(* parsed, logged as a record or published; this holds for every empty     *)
(* read, however many came before it.                                      *)
(***************************************************************************)
C16_Step ==
    pc = "readline" /\ pc' # pc /\ cause' # "read" /\ line' = <<>> =>
        /\ pc' = "read_loop"
        /\ sleepArg' = 1
        /\ UNCHANGED <<running, fail_counter, rtl_proc, multi_proc, conn,
                       leaked, cause, sleep_time>>
        /\ UNCHANGED <<nextId, msg_json, rxCount, accepted, attempts, cycles>>

C16_EmptyReadStaysRunning == [][C16_Step]_vars

C16_Witness ==
    /\ pc = "read_loop"
    /\ line = <<>>
    /\ sleepArg = 1
    /\ running
    /\ multi_proc = "dead"
    /\ conn = "open"
    /\ cause = "none"
    /\ fail_counter = 0
    /\ attempts = <<>>

(***************************************************************************)
(* C17. A line that is blank after trimming, or that is the decoder's      *)
(* startup banner, is dropped: it is not parsed, no RX line is logged, no  *)
(* publish is attempted, and main() stays in the read loop with counter,   *)
(* processes and connection unchanged.  Every other line is parsed, logged *)
(* and handed to the publish, which is attempted with that record.         *)
(***************************************************************************)
BlankOrBannerLines ==
    { <<"\n">>, <<" ", "\n">>, <<"E", ":", "x", "\n">>, <<" ", "E", ":", "\n">> }

C17_Step ==
    /\ pc = "readline" /\ pc' # pc /\ cause' # "read" /\ line' # <<>> =>
         IF line' \in BlankOrBannerLines
         THEN /\ pc' = "read_loop"
              /\ UNCHANGED <<nextId, msg_json, rxCount, accepted, attempts>>
              /\ UNCHANGED <<running, fail_counter, rtl_proc, multi_proc, conn,
                             cause, sleep_time, sleepArg>>
         ELSE /\ pc' = "publish"
              /\ nextId' = nextId + 1
              /\ msg_json' = nextId + 1
              /\ rxCount' = rxCount + 1
              /\ accepted' = accepted + 1
              /\ attempts' = attempts
    /\ pc = "publish" /\ pc' # pc =>
         /\ PendingRecord.id = msg_json
         /\ PendingRecord.raw = Strip(line)
         /\ line \notin BlankOrBannerLines
         /\ \E ok \in BOOLEAN : attempts' = Append(attempts, <<msg_json, ok>>)

C17_FilterThenPublish == [][C17_Step]_vars

C17_Witness ==
    /\ pc = "read_loop"
    /\ line = <<" ", "E", ":", "\n">>
    /\ running
    /\ nextId = 1
    /\ rxCount = 1
    /\ Len(attempts) = 1
    /\ attempts[1][2]
    /\ conn = "open"
    /\ fail_counter = 0

(***************************************************************************)
(* C18. The failure counter starts at 0, is never reset or decreased, and  *)
(* goes up by exactly 1 at the end of every cycle in which the connection  *)
(* was established, whatever ended the read loop; so the n-th backoff      *)
(* delay is min(30, 3n), the delays never decrease, and from the 10th      *)
(* cycle on the delay is 30 s however many records were published.         *)
(***************************************************************************)
C18_BeforeIncrement ==
    {"start_rtl", "start_multi", "read_loop", "readline", "publish", "finally"}

C18_Inv ==
    /\ pc = "makedirs" => fail_counter = 0 /\ cycles = 0
    /\ pc \in C18_BeforeIncrement => fail_counter + 1 = cycles
    /\ pc \notin C18_BeforeIncrement /\ pc # "crashed" => fail_counter = cycles
    /\ pc = "main_loop" =>
         /\ sleep_time = ExpectedDelay(fail_counter)
         /\ fail_counter >= 10 => sleep_time = 30

C18_Step ==
    /\ fail_counter' >= fail_counter
    /\ sleep_time' >= sleep_time
    /\ fail_counter' # fail_counter => pc = "finally"
    /\ pc = "finally" /\ pc' # pc => fail_counter' = fail_counter + 1
    /\ sleep_time' # sleep_time =>
         pc = "backoff" /\ sleep_time' = ExpectedDelay(fail_counter)

C18_CounterNeverReset == []C18_Inv /\ [][C18_Step]_vars

C18_Witness ==
    /\ pc = "main_loop"
    /\ fail_counter = 11
    /\ cycles = 11
    /\ sleep_time = 30
    /\ Len(attempts) = 2
    /\ attempts[1][2]
    /\ attempts[2][2]

(***************************************************************************)
(* C19. Records are handed to the broker in the order their lines were     *)
(* read; the RX line of a record is logged before its publish is attempted *)
(* (a record whose publish fails has been logged); a publish is attempted  *)
(* only with a connection established in the current cycle.                *)
(***************************************************************************)
C19_OrderedLoggedConnected ==
    /\ \A i \in 1..Len(attempts) :
         /\ attempts[i][1] = i
         /\ attempts[i][1] <= rxCount
    /\ rxCount = nextId
    /\ pc = "publish" =>
         /\ msg_json = nextId
         /\ msg_json = Len(attempts) + 1
         /\ rxCount = msg_json
         /\ conn # "None"
         /\ connCycle = cycles
         /\ cycles = fail_counter + 1

C19_Witness ==
    /\ pc = "publish"
    /\ cycles = 2
    /\ connCycle = 2
    /\ conn = "open"
    /\ msg_json = 2
    /\ rxCount = 2
    /\ attempts = << <<1, FALSE>> >>

====
